---- MODULE Spec2Model ----
(***************************************************************************)
(* Safety-observation backend (src/app.py): the relational store, the Blob *)
(* Store (local upload directory and object storage) and the HTTP handlers *)
(* as a state machine.                                                     *)
(*                                                                         *)
(* Strings are sequences of tokens: a word is one token and each of the    *)
(* separators the code parses on (":" ";" "," "/") is a token of its own,  *)
(* so that startswith, split and "in" are computed as the code computes    *)
(* them.  Python None, JSON null and SQL NULL are the value None.          *)
(***************************************************************************)
EXTENDS Integers, Sequences, FiniteSets, TLC

VARIABLES
    users,          \* rows of User
    s3_client,      \* "on" when the bucket and its keys are configured, else "off"
    local_files,    \* files of app.config['UPLOAD_FOLDER']: filename -> bytes
    s3_objects,     \* objects of the bucket: key -> [Body, ContentType]
    nuuid,          \* number of uuid4() values drawn so far
    projects,       \* rows of Project
    subcontractors, \* rows of SubContractor
    observations,   \* rows of Observation
    next_id,        \* AUTO_INCREMENT counter of each table
    pc,             \* per worker: "idle", or the handler step it is about to run
    pend,           \* per worker: the request a handler in flight is serving
    nreq,           \* number of requests received so far
    resp            \* the last response sent, with the request it answers

vars == <<users, s3_client, local_files, s3_objects, nuuid, projects, subcontractors,
          observations, next_id, pc, pend, nreq, resp>>

\* ------------------------------------------------------------------ bounds

MaxReqs == 3

Workers == {1, 2}

\* ----------------------------------------------------------------- strings

None == <<"None">>

S(x) == <<x>>

\* Python truthiness of a JSON string or null
Truthy(v) == v # None /\ v # <<>>

\* str.startswith
startswith(s, p) == Len(s) >= Len(p) /\ SubSeq(s, 1, Len(p)) = p

\* sep in s
Contains(s, sep) == \E i \in 1..Len(s) : s[i] = sep

\* position of the first / last sep in s (sep in s)
FirstIndex(s, sep) == CHOOSE i \in 1..Len(s) : s[i] = sep /\ \A j \in 1..(i-1) : s[j] # sep

LastIndex(s, sep) == CHOOSE i \in 1..Len(s) : s[i] = sep /\ \A j \in (i+1)..Len(s) : s[j] # sep

\* s.split(sep)[0]
SplitHead(s, sep) == IF Contains(s, sep) THEN SubSeq(s, 1, FirstIndex(s, sep) - 1) ELSE s

\* s.split(sep, 1)[1], defined when sep in s
SplitRest(s, sep) == SubSeq(s, FirstIndex(s, sep) + 1, Len(s))

\* s.split(sep)[-1]
SplitLast(s, sep) == IF Contains(s, sep) THEN SubSeq(s, LastIndex(s, sep) + 1, Len(s)) ELSE s

\* s.rstrip(sep)
RECURSIVE rstrip(_, _)
rstrip(s, sep) == IF Len(s) > 0 /\ s[Len(s)] = sep THEN rstrip(SubSeq(s, 1, Len(s) - 1), sep) ELSE s

\* dict.get(key)
Get(data, key) == IF key \in DOMAIN data THEN data[key] ELSE None

\* ------------------------------------------------------------------ base64

\* base64.b64decode on one group of the payload; "error" is binascii.Error
\* (incorrect padding)
B64Group(tok) ==
    CASE tok = "QUJD"     -> <<65, 66, 67>>
      [] tok = "SGk="     -> <<72, 105>>
      [] tok = "JVBERg==" -> <<37, 80, 68, 70>>
      [] OTHER            -> "error"

B64Ok(b64data) == \A i \in 1..Len(b64data) : B64Group(b64data[i]) # "error"

RECURSIVE b64decode(_)
b64decode(b64data) ==
    IF b64data = <<>> THEN <<>>
    ELSE B64Group(Head(b64data)) \o b64decode(Tail(b64data))

\* -------------------------------------------------------------- Blob Store

S3_BUCKET_NAME == "bucket"
S3_REGION == "us-east-1"
S3_ENDPOINT_URL == None
S3_FOLDER_PREFIX == "uploads"

\* f"{app.config['S3_FOLDER_PREFIX']}/{filename}"
s3_key(filename) == <<S3_FOLDER_PREFIX, "/">> \o filename

\* the URL save_base64_image returns for an uploaded object
s3_url(key) ==
    IF Truthy(S3_ENDPOINT_URL)
    THEN S3_ENDPOINT_URL \o <<"/", S3_BUCKET_NAME, "/">> \o key
    ELSE <<"http", "s", ":", "/", "/", S3_BUCKET_NAME, ".s3.", S3_REGION, ".amazonaws.com", "/">> \o key

local_ref(filename) == <<"/", "uploads", "/">> \o filename

\* header.split(';')[0].split(':', 1)[1] if ';' in header else 'application/octet-stream'
mime_of(header) ==
    IF Contains(header, ";")
    THEN SplitRest(SplitHead(header, ";"), ":")
    ELSE <<"application", "/", "octet-stream">>

\* ext = 'bin'; if '/' in mime: ext = mime.split('/')[-1]; jpeg -> jpg
ext_of(mime) ==
    IF Contains(mime, "/")
    THEN (IF SplitLast(mime, "/") = <<"jpeg">> THEN <<"jpg">> ELSE SplitLast(mime, "/"))
    ELSE <<"bin">>

\* mutant of make_filename: the name without the uuid
make_filename_NoUuid(prefix, n, ext) == <<prefix, ".">> \o ext

\* f"{prefix}_{uuid4().hex}.{ext}": the n-th uuid drawn is the token ToString(n)
make_filename(prefix, n, ext) == <<prefix, "_", ToString(n), ".">> \o ext

\* the state of the Blob Store that save_base64_image reads and writes
BlobState == [local |-> local_files, s3 |-> s3_objects, n |-> nuuid]

\* what one call returns: the reference and the Blob Store after it
Saved(ref, bs) == [ref |-> ref, local |-> bs.local, s3 |-> bs.s3, n |-> bs.n]

\* mutant of WriteLocal: the reference is returned although the write failed
WriteLocal_RefOnError(bs, filename, file_data, env) ==
    IF env.disk = "OSError"
    THEN [ref |-> local_ref(filename), local |-> bs.local, s3 |-> bs.s3, n |-> bs.n + 1]
    ELSE [ref |-> local_ref(filename),
          local |-> (filename :> file_data) @@ bs.local,
          s3 |-> bs.s3, n |-> bs.n + 1]

\* open(file_path, 'wb').write(file_data); env.disk = "OSError" makes it raise
WriteLocal(bs, filename, file_data, env) ==
    IF env.disk = "OSError"
    THEN Saved(<<>>, [bs EXCEPT !.n = @ + 1])
    ELSE [ref |-> local_ref(filename),
          local |-> (filename :> file_data) @@ bs.local,
          s3 |-> bs.s3, n |-> bs.n + 1]

\* the try body of save_base64_image once the payload is parsed and decoded.
\* env.put is what put_object does: "ok", "ClientError" or "Error" (any other
\* exception, e.g. a botocore connection error)
StoreDecoded(cfg, bs, filename, mime, file_data, env) ==
    IF cfg # "off"
    THEN CASE env.put = "ok" ->
                [ref |-> s3_url(s3_key(filename)),
                 local |-> bs.local,
                 s3 |-> (s3_key(filename) :> [Body |-> file_data, ContentType |-> mime]) @@ bs.s3,
                 n |-> bs.n + 1]
           [] env.put = "ClientError" -> WriteLocal(bs, filename, file_data, env)
           [] OTHER -> Saved(<<>>, [bs EXCEPT !.n = @ + 1])
    ELSE WriteLocal(bs, filename, file_data, env)

\* mutant of save_base64_image: without the "not data_url.startswith('data:')"
\* return, every value is parsed as an inline payload
save_base64_image_NoPassThrough(cfg, bs, data_url, prefix, env) ==
    IF ~Truthy(data_url) THEN Saved(<<>>, bs)
    ELSE IF ~Contains(data_url, ",") THEN Saved(<<>>, bs)
    ELSE LET header  == SplitHead(data_url, ",")
             b64data == SplitRest(data_url, ",")
             mime    == mime_of(header)
             filename == make_filename(prefix, bs.n + 1, ext_of(mime))
         IN  IF ~B64Ok(b64data) THEN Saved(<<>>, [bs EXCEPT !.n = @ + 1])
             ELSE StoreDecoded(cfg, bs, filename, mime, b64decode(b64data), env)

\* save_base64_image(data_url, prefix) for a string or None data_url
save_base64_image(cfg, bs, data_url, prefix, env) ==
    IF ~Truthy(data_url) THEN Saved(<<>>, bs)
    ELSE IF ~startswith(data_url, <<"data", ":">>) THEN Saved(data_url, bs)
    ELSE IF ~Contains(data_url, ",") THEN Saved(<<>>, bs)
    ELSE LET header  == SplitHead(data_url, ",")
             b64data == SplitRest(data_url, ",")
             mime    == mime_of(header)
             filename == make_filename(prefix, bs.n + 1, ext_of(mime))
         IN  IF ~B64Ok(b64data) THEN Saved(<<>>, [bs EXCEPT !.n = @ + 1])
             ELSE StoreDecoded(cfg, bs, filename, mime, b64decode(b64data), env)

\* mutant of get_object: every key is reported absent
get_object_Absent(s3, key) == [found |-> FALSE, Body |-> <<>>]

\* the object storage side of serve_upload: get_object returns the object, or
\* raises ClientError when the key is absent
get_object(s3, key) ==
    IF key \in DOMAIN s3 THEN [found |-> TRUE, Body |-> s3[key].Body]
    ELSE [found |-> FALSE, Body |-> <<>>]

\* send_from_directory(app.config['UPLOAD_FOLDER'], filename): the file, or 404
send_from_directory(local, filename) ==
    IF filename \in DOMAIN local THEN [status |-> 200, body |-> local[filename]]
    ELSE [status |-> 404, body |-> <<>>]

\* mutant of serve_upload: with object storage configured, no fall back to
\* the local directory
serve_upload_NoFallback(cfg, local, s3, filename) ==
    IF cfg # "off"
    THEN (IF get_object(s3, s3_key(filename)).found
          THEN [status |-> 200, body |-> get_object(s3, s3_key(filename)).Body]
          ELSE [status |-> 404, body |-> <<>>])
    ELSE send_from_directory(local, filename)

\* serve_upload(filename)
serve_upload(cfg, local, s3, filename) ==
    IF cfg # "off" /\ get_object(s3, s3_key(filename)).found
    THEN [status |-> 200, body |-> get_object(s3, s3_key(filename)).Body]
    ELSE send_from_directory(local, filename)

\* -------------------------------------------------------- Relational Store

required_fields ==
    <<"projectCode", "date", "raisedBy", "issueType", "safetyCategory", "observation">>

valid_fields ==
    <<"projectCode", "date", "raisedBy", "issueType", "safetyCategory", "observation",
      "observationPhoto", "contractor", "subContractor", "status",
      "compliance", "complianceDate", "compliancePhoto", "complianceReport">>

Range(seq) == {seq[i] : i \in 1..Len(seq)}

\* class Observation: the columns declared nullable=False
ObservationNotNull ==
    {"projectCode", "date", "raisedBy", "issueType", "safetyCategory", "observation",
     "contractor"}

\* mutant of ObservationDefault: the status column declared without its default
ObservationDefault_NoStatus(col) ==
    CASE col = "contractor" -> S("SIL")
      [] OTHER              -> None

\* class Observation: the value INSERT gives a column the constructor was not given
ObservationDefault(col) ==
    CASE col = "contractor" -> S("SIL")
      [] col = "status"     -> S("Open")
      [] OTHER              -> None

\* Observation(**observation_data) followed by the INSERT of commit
NewObservation(id, observation_data) ==
    [c \in Range(valid_fields) \cup {"id"} |->
        IF c = "id" THEN id
        ELSE IF c \in DOMAIN observation_data THEN observation_data[c]
        ELSE ObservationDefault(c)]

\* the NOT NULL constraints an INSERT or UPDATE of the row must meet
ObservationCommits(row) == \A c \in ObservationNotNull : row[c] # None

\* Observation.query.get(obs_id): the set holding the row, empty when there is none
GetObservation(obs_id) == {o \in observations : o.id = obs_id}

\* mutant of OrderByIdDesc: ascending order
RECURSIVE OrderByIdAsc(_)
OrderByIdAsc(rows) ==
    IF rows = {} THEN <<>>
    ELSE LET low == CHOOSE o \in rows : \A p \in rows : p.id >= o.id
         IN  <<low>> \o OrderByIdAsc(rows \ {low})

\* Observation.query.order_by(Observation.id.desc()).all()
RECURSIVE OrderByIdDesc(_)
OrderByIdDesc(rows) ==
    IF rows = {} THEN <<>>
    ELSE LET top == CHOOSE o \in rows : \A p \in rows : p.id <= o.id
         IN  <<top>> \o OrderByIdDesc(rows \ {top})

\* ------------------------------------------------------------- responses

\* what a handler's "except Exception" clause answers after db.session.rollback()
ExceptStatus == 500

\* a response, with the number n of the request it answers
ResponseTo(n, op, status, data, id, env, msg, body) ==
    [n |-> n, op |-> op, status |-> status, data |-> data, id |-> id,
     env |-> env, msg |-> msg, body |-> body]

\* the response of a handler that answers in the step that receives the request
Response(op, status, data, id, env, msg, body) ==
    ResponseTo(nreq + 1, op, status, data, id, env, msg, body)

NoMsg == [text |-> ""]

\* jsonify({"message": f"Failed to ...: {str(e)}"}) of an except clause
Failed(e) == [text |-> "Failed", error |-> e]

\* the page Flask answers with when the exception leaves the handler
InternalServerError == [text |-> "Internal Server Error"]

\* the request a worker took in this step and has not answered yet
Pending(op, data, id) == [n |-> nreq + 1, op |-> op, data |-> data, id |-> id]

NoPend == [n |-> 0, op |-> "none", data |-> <<>>, id |-> 0]

NoEnv == [put |-> "ok", disk |-> "ok"]

\* --------------------------------------------------- Observation handlers

\* mutant of FirstMissing: tests "field not in data" instead of "not data.get(field)"
RECURSIVE FirstMissing_KeyOnly(_, _)
FirstMissing_KeyOnly(data, fields) ==
    IF fields = <<>> THEN ""
    ELSE IF Head(fields) \notin DOMAIN data THEN Head(fields)
    ELSE FirstMissing_KeyOnly(data, Tail(fields))

\* add_observation: the first required field that is missing or empty, "" if none
RECURSIVE FirstMissing(_, _)
FirstMissing(data, fields) ==
    IF fields = <<>> THEN ""
    ELSE IF ~Truthy(Get(data, Head(fields))) THEN Head(fields)
    ELSE FirstMissing(data, Tail(fields))

\* if data.get(key): data[key] = save_base64_image(data.get(key), prefix)
\* st is [data, bs]: the payload and the Blob Store as the handler goes
SavePhoto(cfg, st, key, prefix, env) ==
    IF Truthy(Get(st.data, key))
    THEN LET r == save_base64_image(cfg, st.bs, st.data[key], prefix, env)
         IN  [data |-> (key :> r.ref) @@ st.data,
              bs |-> [local |-> r.local, s3 |-> r.s3, n |-> r.n]]
    ELSE st

\* the three photo/report fields of add_observation and update_observation, in order
SavePhotos(cfg, data, bs, env) ==
    SavePhoto(cfg,
        SavePhoto(cfg,
            SavePhoto(cfg, [data |-> data, bs |-> bs], "observationPhoto", "observation", env),
            "compliancePhoto", "compliance", env),
        "complianceReport", "compliance_report", env)

\* add_observation: the fields kept for the constructor
ObservationData(data) ==
    [f \in {g \in Range(valid_fields) : g \in DOMAIN data /\ data[g] # None} |-> data[f]]

BlobUnchanged == UNCHANGED <<local_files, s3_objects, nuuid>>

RefUnchanged == UNCHANGED <<projects, subcontractors>>

\* mutant of add_observation: the photo/report fields are saved before the
\* required fields are validated
add_observation_SaveFirst(data, env) ==
    LET st      == SavePhotos(s3_client, data, BlobState, env)
        new_obs == NewObservation(next_id.observation, ObservationData(st.data))
    IN  /\ nreq < MaxReqs
        /\ nreq' = nreq + 1
        /\ UNCHANGED <<users, s3_client, pc, pend>>
        /\ RefUnchanged
        /\ local_files' = st.bs.local
        /\ s3_objects' = st.bs.s3
        /\ nuuid' = st.bs.n
        /\ IF FirstMissing(data, required_fields) # ""
           THEN /\ resp' = Response("add_observation", 400, data, 0, env,
                              [text |-> "Missing required field", field |-> FirstMissing(data, required_fields)],
                              <<>>)
                /\ UNCHANGED <<observations, next_id>>
           ELSE IF ObservationCommits(new_obs)
           THEN /\ observations' = observations \cup {new_obs}
                /\ next_id' = [next_id EXCEPT !.observation = @ + 1]
                /\ resp' = Response("add_observation", 201, data, new_obs.id, env, NoMsg, new_obs)
           ELSE /\ UNCHANGED <<observations, next_id>>
                /\ resp' = Response("add_observation", ExceptStatus, data, 0, env, Failed("IntegrityError"), <<>>)

\* POST /api/observations
add_observation(data, env) ==
    /\ nreq < MaxReqs
    /\ nreq' = nreq + 1
    /\ UNCHANGED <<users, s3_client, pc, pend>>
    /\ RefUnchanged
    /\ IF FirstMissing(data, required_fields) # ""
       THEN /\ resp' = Response("add_observation", 400, data, 0, env,
                          [text |-> "Missing required field", field |-> FirstMissing(data, required_fields)],
                          <<>>)
            /\ BlobUnchanged
            /\ UNCHANGED <<observations, next_id>>
       ELSE LET st      == SavePhotos(s3_client, data, BlobState, env)
                new_obs == NewObservation(next_id.observation, ObservationData(st.data))
            IN  /\ local_files' = st.bs.local
                /\ s3_objects' = st.bs.s3
                /\ nuuid' = st.bs.n
                /\ IF ObservationCommits(new_obs)
                   THEN /\ observations' = observations \cup {new_obs}
                        /\ next_id' = [next_id EXCEPT !.observation = @ + 1]
                        /\ resp' = Response("add_observation", 201, data, new_obs.id, env, NoMsg, new_obs)
                   ELSE /\ UNCHANGED <<observations, next_id>>
                        /\ resp' = Response("add_observation", ExceptStatus, data, 0, env, Failed("IntegrityError"), <<>>)

\* mutant of SetObservation: every valid field is set, to None when the
\* payload does not hold it
SetObservation_Replace(obs, data) ==
    [c \in DOMAIN obs |-> IF c \in Range(valid_fields) THEN Get(data, c) ELSE obs[c]]

\* mutant of SetObservation: a Closed observation keeps its status
SetObservation_ClosedIsFinal(obs, data) ==
    [c \in DOMAIN obs |->
        IF c \in Range(valid_fields) /\ c \in DOMAIN data
              /\ ~(c = "status" /\ obs.status = S("Closed"))
        THEN data[c] ELSE obs[c]]

\* for key, value in data.items(): if key in valid_fields and hasattr(obs, key): setattr
SetObservation(obs, data) ==
    [c \in DOMAIN obs |->
        IF c \in Range(valid_fields) /\ c \in DOMAIN data THEN data[c] ELSE obs[c]]

\* PUT /api/observations/<obs_id>
update_observation(obs_id, data, env) ==
    /\ nreq < MaxReqs
    /\ nreq' = nreq + 1
    /\ UNCHANGED <<users, s3_client, pc, pend, next_id>>
    /\ RefUnchanged
    /\ IF GetObservation(obs_id) = {}
       THEN \* get_or_404 raises NotFound inside the try: the except clause answers
            /\ resp' = Response("update_observation", ExceptStatus, data, obs_id, env, Failed("404 Not Found"), <<>>)
            /\ BlobUnchanged
            /\ UNCHANGED observations
       ELSE LET obs == CHOOSE o \in GetObservation(obs_id) : TRUE
                st  == SavePhotos(s3_client, data, BlobState, env)
                upd == SetObservation(obs, st.data)
            IN  /\ local_files' = st.bs.local
                /\ s3_objects' = st.bs.s3
                /\ nuuid' = st.bs.n
                /\ IF ObservationCommits(upd)
                   THEN /\ observations' = (observations \ {obs}) \cup {upd}
                        /\ resp' = Response("update_observation", 200, data, obs_id, env, NoMsg, upd)
                   ELSE /\ UNCHANGED observations
                        /\ resp' = Response("update_observation", ExceptStatus, data, obs_id, env, Failed("IntegrityError"), <<>>)

\* DELETE /api/observations/<obs_id>
delete_observation(obs_id) ==
    /\ nreq < MaxReqs
    /\ nreq' = nreq + 1
    /\ UNCHANGED <<users, s3_client, pc, pend, next_id>>
    /\ RefUnchanged
    /\ BlobUnchanged
    /\ IF GetObservation(obs_id) = {}
       THEN /\ resp' = Response("delete_observation", ExceptStatus, <<>>, obs_id, NoEnv, Failed("404 Not Found"), <<>>)
            /\ UNCHANGED observations
       ELSE /\ observations' = observations \ GetObservation(obs_id)
            /\ resp' = Response("delete_observation", 200, <<>>, obs_id, NoEnv,
                          [text |-> "Observation deleted successfully"], <<>>)

\* ------------------------------------------------------- Project handlers

ProjectColumns ==
    {"id", "projectCode", "projectName", "projectManagerContractor",
     "projectManagerClient", "clientName", "contractor"}

\* class Project: nullable=False
ProjectNotNull == {"projectCode", "projectName"}

\* what Flask answers when a handler without try/except raises
UnhandledStatus == 500

\* Project(**data) followed by the INSERT: a column not given is NULL, the id
\* is the AUTO_INCREMENT value unless the payload gives one
NewProject(id, data) ==
    [c \in ProjectColumns |->
        IF c = "id" THEN (IF "id" \in DOMAIN data THEN data["id"] ELSE id)
        ELSE Get(data, c)]

\* mutant of ProjectCommits: projectCode without its unique index
ProjectCommits_NoUnique(row, others) ==
    /\ \A c \in ProjectNotNull : row[c] # None
    /\ \A p \in others : p.id # row.id

\* the constraints an INSERT or UPDATE of row must meet against the other rows:
\* NOT NULL, primary key, unique projectCode
ProjectCommits(row, others) ==
    /\ \A c \in ProjectNotNull : row[c] # None
    /\ \A p \in others : p.id # row.id /\ p.projectCode # row.projectCode

GetProject(project_id) == {p \in projects : p.id = project_id}

\* mutant of ProjectCodeExists: any project at all answers the query
ProjectCodeExists_Any(code) == projects # {}

\* Project.query.filter_by(projectCode=code).first() is not None
ProjectCodeExists(code) == \E p \in projects : p.projectCode = code

Idle(w) == pc[w] = "idle"

\* add_project up to the duplicate check (the query runs before the commit, and
\* another request may commit in between)
add_project_check(w, data) ==
    /\ Idle(w)
    /\ nreq < MaxReqs
    /\ nreq' = nreq + 1
    /\ UNCHANGED <<users, s3_client, projects, subcontractors, observations, next_id>>
    /\ BlobUnchanged
    /\ IF ProjectCodeExists(Get(data, "projectCode"))
       THEN /\ resp' = Response("add_project", 409, data, 0, NoEnv,
                          [text |-> "Project code already exists."], <<>>)
            /\ UNCHANGED <<pc, pend>>
       ELSE /\ pc' = [pc EXCEPT ![w] = "add_project_commit"]
            /\ pend' = [pend EXCEPT ![w] = Pending("add_project", data, 0)]
            /\ UNCHANGED resp

\* add_project from Project(**data) to the response
add_project_commit(w) ==
    /\ pc[w] = "add_project_commit"
    /\ pc' = [pc EXCEPT ![w] = "idle"]
    /\ pend' = [pend EXCEPT ![w] = NoPend]
    /\ UNCHANGED <<users, s3_client, subcontractors, observations, nreq>>
    /\ BlobUnchanged
    /\ LET data        == pend[w].data
           new_project == NewProject(next_id.project, data)
       IN  IF DOMAIN data \subseteq ProjectColumns /\ ProjectCommits(new_project, projects)
           THEN /\ projects' = projects \cup {new_project}
                /\ next_id' = [next_id EXCEPT !.project = @ + 1]
                /\ resp' = ResponseTo(pend[w].n, "add_project", 201, data, new_project.id,
                              NoEnv, NoMsg, new_project)
           ELSE \* TypeError of the constructor or IntegrityError of the commit
                /\ UNCHANGED <<projects, next_id>>
                /\ resp' = ResponseTo(pend[w].n, "add_project", UnhandledStatus, data, 0,
                              NoEnv, InternalServerError, <<>>)

\* mutant of SetProject: setattr without the hasattr test
SetProject_AllKeys(project, data) ==
    [c \in DOMAIN project \cup DOMAIN data |-> IF c \in DOMAIN data THEN data[c] ELSE project[c]]

\* for key, value in data.items(): if hasattr(project, key): setattr
SetProject(project, data) ==
    [c \in DOMAIN project |-> IF c \in DOMAIN data THEN data[c] ELSE project[c]]

\* PUT /api/projects/<project_id>
update_project(project_id, data) ==
    /\ nreq < MaxReqs
    /\ nreq' = nreq + 1
    /\ UNCHANGED <<users, s3_client, subcontractors, observations, next_id, pc, pend>>
    /\ BlobUnchanged
    /\ IF GetProject(project_id) = {}
       THEN /\ resp' = Response("update_project", ExceptStatus, data, project_id, NoEnv, Failed("404 Not Found"), <<>>)
            /\ UNCHANGED projects
       ELSE LET project == CHOOSE p \in GetProject(project_id) : TRUE
                upd     == SetProject(project, data)
            IN  IF ProjectCommits(upd, projects \ {project})
                THEN /\ projects' = (projects \ {project}) \cup {upd}
                     /\ resp' = Response("update_project", 200, data, project_id, NoEnv, NoMsg, upd)
                ELSE /\ UNCHANGED projects
                     /\ resp' = Response("update_project", ExceptStatus, data, project_id, NoEnv, Failed("IntegrityError"), <<>>)

\* Observation.query.filter_by(projectCode=project.projectCode).count()
ProjectObservationsCount(project) ==
    Cardinality({o \in observations : o.projectCode = project.projectCode})

\* delete_project up to the reference check
delete_project_check(w, project_id) ==
    /\ Idle(w)
    /\ nreq < MaxReqs
    /\ nreq' = nreq + 1
    /\ UNCHANGED <<users, s3_client, projects, subcontractors, observations, next_id>>
    /\ BlobUnchanged
    /\ IF GetProject(project_id) = {}
       THEN /\ resp' = Response("delete_project", ExceptStatus, <<>>, project_id, NoEnv, Failed("404 Not Found"), <<>>)
            /\ UNCHANGED <<pc, pend>>
       ELSE LET project == CHOOSE p \in GetProject(project_id) : TRUE
                observations_count == ProjectObservationsCount(project)
            IN  IF observations_count > 0
                THEN /\ resp' = Response("delete_project", 400, <<>>, project_id, NoEnv,
                                   [text |-> "Cannot delete project.", count |-> observations_count], <<>>)
                     /\ UNCHANGED <<pc, pend>>
                ELSE /\ pc' = [pc EXCEPT ![w] = "delete_project_commit"]
                     /\ pend' = [pend EXCEPT ![w] = Pending("delete_project", <<>>, project_id)]
                     /\ UNCHANGED resp

\* mutant of delete_project_commit: the delete cascades to the subcontractors
\* of the project
delete_project_commit_Cascade(w) ==
    /\ pc[w] = "delete_project_commit"
    /\ pc' = [pc EXCEPT ![w] = "idle"]
    /\ pend' = [pend EXCEPT ![w] = NoPend]
    /\ UNCHANGED <<users, s3_client, observations, next_id, nreq>>
    /\ BlobUnchanged
    /\ projects' = projects \ GetProject(pend[w].id)
    /\ subcontractors' =
          {c \in subcontractors :
              \A p \in GetProject(pend[w].id) : c.project_code # p.projectCode}
    /\ resp' = ResponseTo(pend[w].n, "delete_project", 200, <<>>, pend[w].id, NoEnv,
                  [text |-> "Project deleted successfully"], <<>>)

\* delete_project: db.session.delete(project); db.session.commit()
delete_project_commit(w) ==
    /\ pc[w] = "delete_project_commit"
    /\ pc' = [pc EXCEPT ![w] = "idle"]
    /\ pend' = [pend EXCEPT ![w] = NoPend]
    /\ UNCHANGED <<users, s3_client, subcontractors, observations, next_id, nreq>>
    /\ BlobUnchanged
    /\ projects' = projects \ GetProject(pend[w].id)
    /\ resp' = ResponseTo(pend[w].n, "delete_project", 200, <<>>, pend[w].id, NoEnv,
                  [text |-> "Project deleted successfully"], <<>>)

\* ------------------------------------------------- SubContractor handlers

SubContractorColumns == {"id", "name", "project_code"}

\* class SubContractor: nullable=False
SubContractorNotNull == {"name", "project_code"}

SubContractorCommits(row, others) ==
    /\ \A c \in SubContractorNotNull : row[c] # None
    /\ \A p \in others : p.id # row.id

GetSubContractor(subcontractor_id) == {c \in subcontractors : c.id = subcontractor_id}

\* POST /api/subcontractors
add_subcontractor(data) ==
    /\ nreq < MaxReqs
    /\ nreq' = nreq + 1
    /\ UNCHANGED <<users, s3_client, projects, observations, pc, pend>>
    /\ BlobUnchanged
    /\ LET project_code == Get(data, "project_code")
           name         == Get(data, "name")
           new_subcontractor ==
               [id |-> next_id.subcontractor, name |-> name, project_code |-> project_code]
       IN  IF ~Truthy(project_code) \/ ~Truthy(name)
           THEN /\ resp' = Response("add_subcontractor", 400, data, 0, NoEnv,
                              [text |-> "Project code and name are required."], <<>>)
                /\ UNCHANGED <<subcontractors, next_id>>
           ELSE IF ~ProjectCodeExists(project_code)
           THEN /\ resp' = Response("add_subcontractor", 404, data, 0, NoEnv,
                              [text |-> "Project not found."], <<>>)
                /\ UNCHANGED <<subcontractors, next_id>>
           ELSE /\ subcontractors' = subcontractors \cup {new_subcontractor}
                /\ next_id' = [next_id EXCEPT !.subcontractor = @ + 1]
                /\ resp' = Response("add_subcontractor", 201, data, new_subcontractor.id,
                              NoEnv, NoMsg, new_subcontractor)

\* for key, value in data.items(): if hasattr(subcontractor, key): setattr
SetSubContractor(subcontractor, data) ==
    [c \in DOMAIN subcontractor |-> IF c \in DOMAIN data THEN data[c] ELSE subcontractor[c]]

\* PUT /api/subcontractors/<subcontractor_id>
update_subcontractor(subcontractor_id, data) ==
    /\ nreq < MaxReqs
    /\ nreq' = nreq + 1
    /\ UNCHANGED <<users, s3_client, projects, observations, next_id, pc, pend>>
    /\ BlobUnchanged
    /\ IF GetSubContractor(subcontractor_id) = {}
       THEN /\ resp' = Response("update_subcontractor", ExceptStatus, data, subcontractor_id,
                          NoEnv, Failed("404 Not Found"), <<>>)
            /\ UNCHANGED subcontractors
       ELSE LET subcontractor == CHOOSE c \in GetSubContractor(subcontractor_id) : TRUE
                upd           == SetSubContractor(subcontractor, data)
            IN  IF SubContractorCommits(upd, subcontractors \ {subcontractor})
                THEN /\ subcontractors' = (subcontractors \ {subcontractor}) \cup {upd}
                     /\ resp' = Response("update_subcontractor", 200, data, subcontractor_id,
                                   NoEnv, NoMsg, upd)
                ELSE /\ UNCHANGED subcontractors
                     /\ resp' = Response("update_subcontractor", ExceptStatus, data,
                                   subcontractor_id, NoEnv, Failed("IntegrityError"), <<>>)

\* mutant of SubContractorObservationsCount: counts only the observations of
\* the subcontractor's own project
SubContractorObservationsCount_SameProject(subcontractor) ==
    Cardinality({o \in observations : o.subContractor = subcontractor.name
                                      /\ o.projectCode = subcontractor.project_code})

\* Observation.query.filter_by(subContractor=subcontractor.name).count()
SubContractorObservationsCount(subcontractor) ==
    Cardinality({o \in observations : o.subContractor = subcontractor.name})

\* delete_subcontractor up to the reference check
delete_subcontractor_check(w, subcontractor_id) ==
    /\ Idle(w)
    /\ nreq < MaxReqs
    /\ nreq' = nreq + 1
    /\ UNCHANGED <<users, s3_client, projects, subcontractors, observations, next_id>>
    /\ BlobUnchanged
    /\ IF GetSubContractor(subcontractor_id) = {}
       THEN /\ resp' = Response("delete_subcontractor", ExceptStatus, <<>>, subcontractor_id,
                          NoEnv, Failed("404 Not Found"), <<>>)
            /\ UNCHANGED <<pc, pend>>
       ELSE LET subcontractor == CHOOSE c \in GetSubContractor(subcontractor_id) : TRUE
                observations_count == SubContractorObservationsCount(subcontractor)
            IN  IF observations_count > 0
                THEN /\ resp' = Response("delete_subcontractor", 400, <<>>, subcontractor_id, NoEnv,
                                   [text |-> "Cannot delete subcontractor.", count |-> observations_count],
                                   <<>>)
                     /\ UNCHANGED <<pc, pend>>
                ELSE /\ pc' = [pc EXCEPT ![w] = "delete_subcontractor_commit"]
                     /\ pend' = [pend EXCEPT ![w] =
                                    Pending("delete_subcontractor", <<>>, subcontractor_id)]
                     /\ UNCHANGED resp

\* delete_subcontractor: db.session.delete(subcontractor); db.session.commit()
delete_subcontractor_commit(w) ==
    /\ pc[w] = "delete_subcontractor_commit"
    /\ pc' = [pc EXCEPT ![w] = "idle"]
    /\ pend' = [pend EXCEPT ![w] = NoPend]
    /\ UNCHANGED <<users, s3_client, projects, observations, next_id, nreq>>
    /\ BlobUnchanged
    /\ subcontractors' = subcontractors \ GetSubContractor(pend[w].id)
    /\ resp' = ResponseTo(pend[w].n, "delete_subcontractor", 200, <<>>, pend[w].id, NoEnv,
                  [text |-> "Subcontractor deleted successfully"], <<>>)

\* ---------------------------------------------------------- Export Service

\* value or ''
OrEmpty(v) == IF Truthy(v) THEN v ELSE <<>>

\* mutant of export_url: every reference that is not an absolute URL gets the
\* host in front
export_url_PrefixAll(url_root, ref) ==
    IF ~Truthy(ref) THEN <<>>
    ELSE IF startswith(ref, <<"http">>) THEN ref
    ELSE rstrip(url_root, "/") \o ref

\* the URL column of a stored photo/report reference
export_url(url_root, ref) ==
    IF ~Truthy(ref) THEN <<>>
    ELSE IF startswith(ref, <<"http">>) THEN ref
    ELSE IF startswith(ref, <<"/", "uploads", "/">>) THEN rstrip(url_root, "/") \o ref
    ELSE ref

\* row = [idx, date_str, ...]
export_row(idx, obs, url_root) ==
    <<idx,
      OrEmpty(obs.date),
      OrEmpty(obs.raisedBy),
      OrEmpty(obs.issueType),
      OrEmpty(obs.safetyCategory),
      OrEmpty(obs.observation),
      IF Truthy(obs.contractor) THEN obs.contractor ELSE S("SIL"),
      OrEmpty(obs.subContractor),
      OrEmpty(obs.status),
      OrEmpty(obs.compliance),
      OrEmpty(obs.complianceDate),
      export_url(url_root, obs.observationPhoto),
      export_url(url_root, obs.compliancePhoto),
      export_url(url_root, obs.complianceReport)>>

\* for idx, obs in enumerate(observations, 1): writer.writerow(row)
export_rows(rows, url_root) ==
    [idx \in 1..Len(OrderByIdDesc(rows)) |-> export_row(idx, OrderByIdDesc(rows)[idx], url_root)]

\* GET /api/export-excel
export_excel(url_root) ==
    /\ nreq < MaxReqs
    /\ nreq' = nreq + 1
    /\ UNCHANGED <<users, s3_client, projects, subcontractors, observations, next_id, pc, pend>>
    /\ BlobUnchanged
    /\ resp' = Response("export_excel", 200, <<>>, 0, NoEnv, [text |-> "", url_root |-> url_root],
                  export_rows(observations, url_root))

\* GET /uploads/<filename>
ServeUpload(filename) ==
    /\ nreq < MaxReqs
    /\ nreq' = nreq + 1
    /\ UNCHANGED <<users, s3_client, projects, subcontractors, observations, next_id, pc, pend>>
    /\ BlobUnchanged
    /\ LET r == serve_upload(s3_client, local_files, s3_objects, filename)
       IN  resp' = Response("serve_upload", r.status, <<>>, 0, NoEnv,
                      [text |-> "", filename |-> filename], r.body)

\* one call of save_base64_image(data_url, prefix), as the handlers make it:
\* the Blob Store after it, the reference it returns as the answer
StoreBlob(data_url, prefix, env) ==
    /\ nreq < MaxReqs
    /\ nreq' = nreq + 1
    /\ UNCHANGED <<users, s3_client, projects, subcontractors, observations, next_id, pc, pend>>
    /\ LET r == save_base64_image(s3_client, BlobState, data_url, prefix, env)
       IN  /\ local_files' = r.local
           /\ s3_objects' = r.s3
           /\ nuuid' = r.n
           /\ resp' = Response("save_base64_image", 0, data_url, 0, env,
                         [text |-> "", prefix |-> prefix], r.ref)

\* ------------------------------------------------------- login and data

\* generate_password_hash(password, method='pbkdf2:sha256')
generate_password_hash(password) == <<"pbkdf2:sha256", "$">> \o password

\* check_password_hash(pwhash, password)
check_password_hash(pwhash, password) == pwhash = generate_password_hash(password)

\* User.query.filter_by(username=username).first()
GetUser(username) == {u \in users : u.username = username}

\* mutant of login: a successful login stores a fresh hash of the password
login_Rehash(data) ==
    /\ nreq < MaxReqs
    /\ nreq' = nreq + 1
    /\ UNCHANGED <<s3_client, projects, subcontractors, observations, next_id, pc, pend>>
    /\ BlobUnchanged
    /\ users' = {[u EXCEPT !.password_hash =
                      IF u.username = Get(data, "username") /\ Get(data, "password") # None
                      THEN <<"scrypt", "$">> \o Get(data, "password") ELSE @] : u \in users}
    /\ resp' = Response("login", 200, data, 0, NoEnv, NoMsg, <<>>)

\* POST /api/login
login(data) ==
    /\ nreq < MaxReqs
    /\ nreq' = nreq + 1
    /\ UNCHANGED <<users, s3_client, projects, subcontractors, observations, next_id, pc, pend>>
    /\ BlobUnchanged
    /\ LET username == Get(data, "username")
           password == Get(data, "password")
       IN  IF GetUser(username) = {}
           THEN resp' = Response("login", 401, data, 0, NoEnv,
                            [text |-> "Invalid username or password"], <<>>)
           ELSE LET user == CHOOSE u \in GetUser(username) : TRUE
                IN  IF password = None
                    THEN \* check_password_hash raises on None: no try/except here
                         resp' = Response("login", UnhandledStatus, data, 0, NoEnv,
                                     InternalServerError, <<>>)
                    ELSE IF ~check_password_hash(user.password_hash, password)
                    THEN resp' = Response("login", 401, data, 0, NoEnv,
                                     [text |-> "Invalid username or password"], <<>>)
                    ELSE resp' = Response("login", 200, data, user.id, NoEnv, NoMsg,
                                     [username |-> user.username, role |-> user.role])

\* GET /api/data
get_initial_data ==
    /\ nreq < MaxReqs
    /\ nreq' = nreq + 1
    /\ UNCHANGED <<users, s3_client, projects, subcontractors, observations, next_id, pc, pend>>
    /\ BlobUnchanged
    /\ resp' = Response("get_initial_data", 200, <<>>, 0, NoEnv, NoMsg,
                  [projects |-> projects,
                   observations |-> OrderByIdDesc(observations),
                   sub_contractors |->
                       [code \in {c.project_code : c \in subcontractors} |->
                           {c \in subcontractors : c.project_code = code}]])

\* ------------------------------------------------------------------- inputs

\* a photo/report value that is an inline payload
IsInline(v) == Truthy(v) /\ startswith(v, <<"data", ":">>)

PhotoFields == {"observationPhoto", "compliancePhoto", "complianceReport"}

PNG     == <<"data", ":", "image", "/", "png", ";", "base64", ",", "QUJD">>
JPEG    == <<"data", ":", "image", "/", "jpeg", ";", "base64", ",", "SGk=">>
PDF     == <<"data", ":", "application", "/", "pdf", ";", "base64", ",", "JVBERg==">>
BadPad  == <<"data", ":", "image", "/", "png", ";", "base64", ",", "QQ">>
NoComma == <<"data", ":", "image", "/", "png">>
NoParam == <<"data", ":", "image", "/", "png", ",", "QUJD">>
NoSubtype == <<"data", ":", "text", ";", "base64", ",", "SGk=">>
OldRef  == <<"/", "uploads", "/", "old.png">>
HttpRef == <<"http", "s", ":", "/", "/", "cdn.example", "/", "a.png">>
TagRef  == <<"photo-17">>

\* the example payload of the spec
Base ==
    [projectCode |-> S("I-30059"), date |-> S("2024-01-01"), raisedBy |-> S("A"),
     issueType |-> S("PPE"), safetyCategory |-> S("Fall"), observation |-> S("no harness")]

With(data, key, value) == (key :> value) @@ data

Without(data, key) == [k \in DOMAIN data \ {key} |-> data[k]]

CreatePayloads ==
    {Base}
    \cup {Without(Base, f) : f \in Range(required_fields)}
    \cup {With(Base, f, <<>>) : f \in Range(required_fields)}
    \cup {With(Base, f, None) : f \in Range(required_fields)}
    \cup {With(Base, "observationPhoto", PNG),
          With(With(Base, "compliancePhoto", OldRef), "complianceReport", PDF),
          With(With(Base, "observationPhoto", BadPad), "compliancePhoto", NoComma),
          With(Without(Base, "date"), "observationPhoto", PNG),
          With(With(With(With(Base, "observationPhoto", TagRef), "compliancePhoto", HttpRef),
                    "status", None), "contractor", None),
          With(With(With(With(Base, "observation", S("spill")), "status", S("Closed")),
                    "contractor", S("ACME")), "subContractor", S("RRPL"))}

UpdatePayloads ==
    {[status |-> S("Closed"), compliance |-> S("fixed"), complianceDate |-> S("2024-02-01")],
     [compliancePhoto |-> JPEG, complianceReport |-> BadPad],
     [observationPhoto |-> <<>>, compliancePhoto |-> None, status |-> None],
     [observationPhoto |-> OldRef, remarks |-> S("x"), status |-> S("On hold")],
     [status |-> S("Open")],
     [date |-> None, complianceReport |-> PDF]}

\* the observations the reference data is exercised with
RefCreatePayloads ==
    {Base,
     With(With(With(Base, "observation", S("spill")), "subContractor", S("RRPL")),
          "remarks", S("x"))}

RefUpdatePayloads ==
    {[subContractor |-> S("RRPL"), remarks |-> S("x")],
     [projectCode |-> S("I-2501F001"), id |-> 99]}

AddProjectPayloads ==
    {[projectCode |-> S("P-NEW"), projectName |-> S("New Plant")],
     [projectCode |-> S("I-30059"), projectName |-> S("Copy")],
     [projectName |-> S("Unnamed"), budget |-> S("1")]}

UpdateProjectPayloads ==
    {[projectCode |-> S("P-NEW")],
     [projectCode |-> S("I-2501F001")],
     [projectName |-> S("Renamed"), budget |-> S("1")],
     [budget |-> S("1")],
     [id |-> 99]}

SubContractorPayloads ==
    {[project_code |-> S("I-30059"), name |-> S("NEWCO")],
     [project_code |-> S("I-30059"), name |-> S("RRPL")],
     [project_code |-> S("P-404"), name |-> S("NEWCO")],
     [project_code |-> <<>>, name |-> S("NEWCO")],
     [name |-> S("NEWCO")],
     [name |-> None]}

UpdateSubContractorPayloads == SubContractorPayloads \cup {[id |-> 99]}

\* the values and prefixes save_base64_image is called with
DataUrls == {PNG, JPEG, NoParam, NoSubtype, BadPad, NoComma, TagRef, None}

Prefixes == {"observation", "compliance_report"}

LoginPayloads ==
    {[username |-> S("admin@simonindia.ai"), password |-> S("Simon@54321")],
     [username |-> S("safety@simonindia.ai"), password |-> S("wrong")],
     [username |-> S("admin@simonindia.ai")],
     [username |-> S("nobody@simonindia.ai"), password |-> S("Simon@54321")]}

ObservationIds == {1, 2, 99}
UpdateIds == {1, 99}
ProjectIds == {1, 5, 99}
SubContractorIds == {1, 11, 99}

UrlRoots ==
    {<<"http", ":", "/", "/", "localhost:5000", "/">>,
     <<"http", "s", ":", "/", "/", "safety.example", "/">>}

\* what the storage backends do during one request
Envs == [put : {"ok", "ClientError", "Error"}, disk : {"ok", "OSError"}]

\* the outcomes that can matter to a request: none when it carries no inline
\* payload, no put_object outcome when object storage is not configured, no
\* local write outcome unless the handler comes to write locally
EnvsFor(data) ==
    IF \A k \in PhotoFields : ~IsInline(Get(data, k)) THEN {NoEnv}
    ELSE IF s3_client = "off" THEN {e \in Envs : e.put = "ok"}
    ELSE {e \in Envs : e.put = "ClientError" \/ e.disk = "ok"}

\* the filenames a client asks /uploads/ for: those of the stored references,
\* and one that was never stored
Filenames ==
    {SplitLast(o[k], "/") : o \in {p \in observations : TRUE}, k \in PhotoFields}
    \cup {S("missing.png")}

\* ---------------------------------------------------------- specification

\* setup_database: projects_data
projects_data ==
    {[id |-> 1, projectCode |-> S("I-30059"), projectName |-> S("5th Evaporator"),
      projectManagerContractor |-> S("Biswa Ranjan Dash"),
      projectManagerClient |-> S("PPL Manager"), clientName |-> S("PPL"), contractor |-> S("SIL")],
     [id |-> 2, projectCode |-> S("I-2501F001"),
      projectName |-> S("Sulphur Melting & Filtration Facility"),
      projectManagerContractor |-> S("Biswa Ranjan Dash"),
      projectManagerClient |-> S("PPL Manager"), clientName |-> S("PPL"), contractor |-> S("SIL")],
     [id |-> 3, projectCode |-> S("I-2501F002"), projectName |-> S("23MW Power Plant TG-4, PPL"),
      projectManagerContractor |-> S("Biswa Ranjan Dash"),
      projectManagerClient |-> S("PPL Manager"), clientName |-> S("PPL"), contractor |-> S("SIL")],
     [id |-> 4, projectCode |-> S("I-2503F002"),
      projectName |-> S("8000T Phosphoric Acid Tank, MCFL"),
      projectManagerContractor |-> S("Biswa Ranjan Dash"),
      projectManagerClient |-> S("MCFL Manager"), clientName |-> S("MCFL"), contractor |-> S("SIL")]}

\* setup_database: contractors_data
contractors_data ==
    <<"RRPL", "CHEMDIST", "KRUPANJAL", "BBGC", "FRIENDS", "RK ENGG", "BIMAL", "M SQUARE",
      "CUMI", "SAMANTARAY">>

\* setup_database: the two default accounts
users_data ==
    {[id |-> 1, username |-> S("admin@simonindia.ai"),
      password_hash |-> generate_password_hash(S("Simon@54321")), role |-> S("admin")],
     [id |-> 2, username |-> S("safety@simonindia.ai"),
      password_hash |-> generate_password_hash(S("Simon@54321")), role |-> S("safety")]}

Init ==
    /\ users = users_data
    /\ s3_client \in {"off", "on"}
    /\ local_files = <<>>
    /\ s3_objects = <<>>
    /\ nuuid = 0
    /\ projects = projects_data
    /\ subcontractors =
         {[id |-> i, name |-> S(contractors_data[i]), project_code |-> S("I-30059")] :
            i \in 1..Len(contractors_data)}
    /\ observations = {}
    /\ next_id = [project |-> Cardinality(projects_data) + 1,
                  subcontractor |-> Len(contractors_data) + 1,
                  observation |-> 1]
    /\ pc = [w \in Workers |-> "idle"]
    /\ pend = [w \in Workers |-> NoPend]
    /\ nreq = 0
    /\ resp = ResponseTo(0, "none", 0, <<>>, 0, NoEnv, NoMsg, <<>>)

\* a request in flight takes the first free worker
Free(w) == Idle(w) /\ \A v \in Workers : v < w => ~Idle(v)

\* --- the Observation lifecycle, the export and the uploads: no handler of
\* --- these reads or writes a Project or SubContractor row

AddObservation == \E data \in CreatePayloads : \E env \in EnvsFor(data) : add_observation(data, env)

UpdateObservation ==
    \E obs_id \in UpdateIds, data \in UpdatePayloads :
        \E env \in EnvsFor(data) : update_observation(obs_id, data, env)

DeleteObservation == \E obs_id \in ObservationIds : delete_observation(obs_id)

ExportExcel == \E url_root \in UrlRoots : export_excel(url_root)

GetUpload == \E filename \in Filenames : ServeUpload(filename)

NextObs ==
    \/ AddObservation
    \/ UpdateObservation
    \/ DeleteObservation
    \/ ExportExcel
    \/ GetUpload

SpecObs == Init /\ [][NextObs]_vars

\* --- the Blob Store on its own: save_base64_image applied to each kind of
\* --- value under each prefix the handlers use, and the uploads it leaves

SaveBase64Image ==
    \E data_url \in DataUrls, prefix \in Prefixes :
        \E env \in EnvsFor([observationPhoto |-> data_url]) :
            StoreBlob(data_url, prefix, env)

GetStored ==
    \E filename \in DOMAIN local_files
                     \cup {SubSeq(key, 3, Len(key)) : key \in DOMAIN s3_objects}
                     \cup {S("missing.png")} :
        ServeUpload(filename)

NextStore ==
    \/ SaveBase64Image
    \/ GetStored

SpecStore == Init /\ [][NextStore]_vars

\* --- the reference data (projects, subcontractors) with the observations
\* --- that refer to it

RefObservation == \E data \in RefCreatePayloads : add_observation(data, NoEnv)

RefUpdateObservation ==
    \E obs_id \in UpdateIds, data \in RefUpdatePayloads : update_observation(obs_id, data, NoEnv)

Login == \E data \in LoginPayloads : login(data)

GetInitialData == get_initial_data

AddProjectCheck == \E w \in Workers, data \in AddProjectPayloads : Free(w) /\ add_project_check(w, data)

AddProjectCommit == \E w \in Workers : add_project_commit(w)

UpdateProject == \E project_id \in ProjectIds, data \in UpdateProjectPayloads : update_project(project_id, data)

DeleteProjectCheck ==
    \E w \in Workers, project_id \in ProjectIds : Free(w) /\ delete_project_check(w, project_id)

DeleteProjectCommit == \E w \in Workers : delete_project_commit(w)

AddSubContractor == \E data \in SubContractorPayloads : add_subcontractor(data)

UpdateSubContractor ==
    \E subcontractor_id \in SubContractorIds, data \in UpdateSubContractorPayloads :
        update_subcontractor(subcontractor_id, data)

DeleteSubContractorCheck ==
    \E w \in Workers, subcontractor_id \in SubContractorIds :
        Free(w) /\ delete_subcontractor_check(w, subcontractor_id)

DeleteSubContractorCommit == \E w \in Workers : delete_subcontractor_commit(w)

Next ==
    \/ RefObservation
    \/ RefUpdateObservation
    \/ DeleteObservation
    \/ AddProjectCheck
    \/ AddProjectCommit
    \/ UpdateProject
    \/ DeleteProjectCheck
    \/ DeleteProjectCommit
    \/ AddSubContractor
    \/ UpdateSubContractor
    \/ DeleteSubContractorCheck
    \/ DeleteSubContractorCommit
    \/ Login
    \/ GetInitialData
    \/ ExportExcel
    \/ GetUpload

Spec == Init /\ [][Next]_vars

\* ------------------------------------------------------------------ claims

\* the step sends the response to a request of kind op
Answers(op) == resp'.n # resp.n /\ resp'.op = op

\* the step receives a request and answers it at once
AnswersAtOnce(op) == nreq' = nreq + 1 /\ resp'.n = nreq' /\ resp'.op = op

TablesUnchanged == UNCHANGED <<projects, subcontractors, observations>>

MissingFields(data) == {f \in Range(required_fields) : ~Truthy(Get(data, f))}

\* C1: a POST /api/observations whose payload lacks a required field, or holds
\* it empty or null, is answered 400 with a message naming a required field the
\* payload lacks (the one lacking field when there is exactly one), and the
\* Observation table is unchanged.
C1_MissingFieldRejected ==
    [][(Answers("add_observation") /\ MissingFields(resp'.data) # {}) =>
          /\ resp'.status = 400
          /\ resp'.msg.text = "Missing required field"
          /\ resp'.msg.field \in MissingFields(resp'.data)
          /\ observations' = observations]_vars

C1_Witness ==
    /\ resp.op = "add_observation"
    /\ resp.status = 400
    /\ MissingFields(resp.data) = {"safetyCategory"}
    /\ resp.msg.field = "safetyCategory"
    /\ observations # {}

\* the Project rows created through POST /api/projects
CreatedProjects == {p \in projects : \A q \in projects_data : q.id # p.id}

\* C2 (as claimed): a POST /api/projects whose projectCode is held by a
\* Project row that an earlier or overlapping create has committed returns 409
\* and leaves the Project table unchanged.
C2_DuplicateAlways409 ==
    [][(/\ Answers("add_project")
        /\ \E p \in CreatedProjects : p.projectCode = Get(resp'.data, "projectCode")) =>
          (resp'.status = 409 /\ projects' = projects)]_vars

\* the request of kind op for the row id is received in this step: it is
\* answered at once, or a worker goes on to its commit
Receives(op, id) ==
    /\ nreq' = nreq + 1
    /\ \/ AnswersAtOnce(op) /\ resp'.id = id
       \/ \E w \in Workers : pend'[w].n = nreq' /\ pend'[w].op = op /\ pend'[w].id = id

\* C3: a DELETE of a project (resp. subcontractor) that some Observation
\* refers to by projectCode (resp. by subContractor = name, whatever the
\* observation's project) is answered 400 with the exact number of referring
\* observations, and the row remains.
C3_ReferencedDeleteBlocked ==
    [][/\ \A p \in projects :
            (/\ Receives("delete_project", p.id)
             /\ \E o \in observations : o.projectCode = p.projectCode) =>
                /\ AnswersAtOnce("delete_project")
                /\ resp'.status = 400
                /\ resp'.msg.count = Cardinality({o \in observations : o.projectCode = p.projectCode})
                /\ projects' = projects
                /\ UNCHANGED pend
       /\ \A c \in subcontractors :
            (/\ Receives("delete_subcontractor", c.id)
             /\ \E o \in observations : o.subContractor = c.name) =>
                /\ AnswersAtOnce("delete_subcontractor")
                /\ resp'.status = 400
                /\ resp'.msg.count = Cardinality({o \in observations : o.subContractor = c.name})
                /\ subcontractors' = subcontractors
                /\ UNCHANGED pend]_vars

C3_Witness ==
    /\ resp.op = "delete_subcontractor"
    /\ resp.status = 400
    /\ resp.msg.count = 1
    /\ \E c \in subcontractors, o \in observations :
          c.id = resp.id /\ o.subContractor = c.name /\ o.projectCode # c.project_code

PutDelete ==
    {"update_observation", "delete_observation", "update_project", "delete_project",
     "update_subcontractor", "delete_subcontractor"}

\* the rows a PUT or DELETE of kind op looks its id up in
TableOf(op) ==
    CASE op \in {"update_observation", "delete_observation"} -> observations
      [] op \in {"update_project", "delete_project"}         -> projects
      [] OTHER                                               -> subcontractors

\* C4 (as claimed): a PUT or DELETE whose id names no row is answered 404 and
\* leaves every table unchanged.
C4_UnknownIdIs404 ==
    [][\A op \in PutDelete :
          (AnswersAtOnce(op) /\ \A r \in TableOf(op) : r.id # resp'.id) =>
              (resp'.status = 404 /\ TablesUnchanged)]_vars

\* C5: a POST /api/observations with the six required fields and no status and
\* no contractor (absent or null) is answered 201, and the stored observation
\* has status "Open" and contractor "SIL".
C5_DefaultsOnCreate ==
    [][(/\ Answers("add_observation")
        /\ MissingFields(resp'.data) = {}
        /\ Get(resp'.data, "status") = None
        /\ Get(resp'.data, "contractor") = None) =>
          /\ resp'.status = 201
          /\ resp'.body.status = S("Open")
          /\ resp'.body.contractor = S("SIL")
          /\ resp'.body \notin observations
          /\ observations' = observations \cup {resp'.body}]_vars

C5_Witness ==
    /\ resp.op = "add_observation"
    /\ resp.status = 201
    /\ "status" \notin DOMAIN resp.data
    /\ "contractor" \notin DOMAIN resp.data
    /\ \E o \in observations : o.id = resp.id /\ o.status = S("Open") /\ o.contractor = S("SIL")

\* an inline payload that parses and decodes
Decodable(v) == IsInline(v) /\ Contains(v, ",") /\ B64Ok(SplitRest(v, ","))

\* the storage configuration a request with outcomes env meets: "local" (no
\* object storage), "s3" (upload succeeds), "fallback" (upload fails with a
\* ClientError and the local write succeeds), "none" in every other case
StoreConfig(env) ==
    IF s3_client = "off" THEN (IF env.disk = "ok" THEN "local" ELSE "none")
    ELSE IF env.put = "ok" THEN "s3"
    ELSE IF env.put = "ClientError" /\ env.disk = "ok" THEN "fallback"
    ELSE "none"

\* what GET /uploads/<filename> answers in the state before and after the step
Upload(filename) == serve_upload(s3_client, local_files, s3_objects, filename)

UploadAfter(filename) == serve_upload(s3_client', local_files', s3_objects', filename)

\* the filename of a stored reference: its last path segment
FilenameOf(ref) == SplitLast(ref, "/")

CommitsObservation ==
    /\ Answers("add_observation") \/ Answers("update_observation")
    /\ resp'.status \in {200, 201}

\* C6: in a create or update that commits, a photo/report string that does not
\* start with "data:" is stored and returned unchanged; a request with no
\* inline payload writes no blob; and every reference the stored observation
\* holds, submitted again, comes back as it is without a write.
C6_ReferencePassThrough ==
    [][/\ CommitsObservation =>
            /\ resp'.body \in observations'
            /\ \A k \in PhotoFields \cap DOMAIN resp'.data :
                  (resp'.data[k] # None /\ ~IsInline(resp'.data[k])) =>
                      resp'.body[k] = resp'.data[k]
            /\ \A k \in PhotoFields, env \in Envs :
                  resp'.body[k] # None =>
                      save_base64_image(s3_client', BlobState', resp'.body[k], "observation", env)
                          = Saved(resp'.body[k], BlobState')
       /\ (/\ Answers("add_observation") \/ Answers("update_observation")
           /\ \A k \in PhotoFields : ~IsInline(Get(resp'.data, k))) => BlobUnchanged]_vars

C6_Witness ==
    /\ resp.op = "update_observation"
    /\ resp.status = 200
    /\ Get(resp.data, "observationPhoto") = OldRef
    /\ BlobState.n = 0
    /\ \E o \in observations : o.id = resp.id /\ o.observationPhoto = OldRef

\* the filenames the Blob Store holds
StoredFilenames ==
    DOMAIN local_files \cup {SubSeq(key, 3, Len(key)) : key \in DOMAIN s3_objects}

\* C7: in a create or update that commits, an inline payload stored under one
\* of the three configurations (local only, upload succeeding, upload failing
\* with local fallback) leaves a reference whose filename GET /uploads/ answers
\* with exactly the decoded bytes; and what GET /uploads/ answers for a stored
\* filename never changes afterwards.
C7_InlineRoundTrip ==
    [][/\ CommitsObservation =>
            \A k \in PhotoFields \cap DOMAIN resp'.data :
                (Decodable(resp'.data[k]) /\ StoreConfig(resp'.env) # "none") =>
                    /\ Truthy(resp'.body[k])
                    /\ UploadAfter(FilenameOf(resp'.body[k]))
                         = [status |-> 200, body |-> b64decode(SplitRest(resp'.data[k], ","))]
       /\ \A filename \in StoredFilenames :
            Upload(filename).status = 200 /\ UploadAfter(filename) = Upload(filename)]_vars

C7_Witness ==
    /\ resp.op = "serve_upload"
    /\ resp.status = 200
    /\ resp.body = <<65, 66, 67>>
    /\ s3_client = "on"
    /\ resp.msg.filename \in DOMAIN local_files
    /\ \E o \in observations : FilenameOf(o.observationPhoto) = resp.msg.filename

\* the observation with exactly i - 1 observations of a greater id
Ranked(i) == {o \in observations : Cardinality({p \in observations : p.id > o.id}) = i - 1}

\* C8: GET /api/export-excel answers one row per stored Observation, the i-th
\* row made from the observation with the i-th greatest id and numbered i in
\* column 1, and changes no table.
C8_ExportRows ==
    [][Answers("export_excel") =>
          /\ resp'.status = 200
          /\ DOMAIN resp'.body = 1..Cardinality(observations)
          /\ \A i \in DOMAIN resp'.body :
                /\ resp'.body[i][1] = i
                /\ \E o \in Ranked(i) :
                      /\ resp'.body[i][2] = OrEmpty(o.date)
                      /\ resp'.body[i][3] = OrEmpty(o.raisedBy)
                      /\ resp'.body[i][6] = OrEmpty(o.observation)
                      /\ resp'.body[i][8] = OrEmpty(o.subContractor)
                      /\ resp'.body[i][9] = OrEmpty(o.status)
                      /\ resp'.body[i][10] = OrEmpty(o.compliance)
          /\ TablesUnchanged]_vars

C8_Witness ==
    /\ resp.op = "export_excel"
    /\ Len(resp.body) = 2
    /\ resp.body[1][1] = 1 /\ resp.body[2][1] = 2
    /\ resp.body[1][6] = S("spill") /\ resp.body[2][6] = S("no harness")

\* the request's host root: url_root without its closing "/"
HostRoot(url_root) == SubSeq(url_root, 1, Len(url_root) - 1)

\* C9: in the export, each of the three reference columns is the host root
\* followed by the stored value when that value starts with "/uploads/", the
\* stored value itself in every other non-empty case, and empty when the stored
\* value is empty or null.
C9_ExportReferences ==
    [][Answers("export_excel") =>
          \A i \in DOMAIN resp'.body : \E o \in Ranked(i) :
             \A col \in {<<12, "observationPhoto">>, <<13, "compliancePhoto">>,
                         <<14, "complianceReport">>} :
                resp'.body[i][col[1]] =
                    IF o[col[2]] = None \/ o[col[2]] = <<>> THEN <<>>
                    ELSE IF startswith(o[col[2]], <<"/", "uploads", "/">>)
                         THEN HostRoot(resp'.msg.url_root) \o o[col[2]]
                    ELSE o[col[2]]]_vars

C9_Witness ==
    /\ resp.op = "export_excel"
    /\ \E i \in DOMAIN resp.body, j \in DOMAIN resp.body, o \in observations :
          /\ o.compliancePhoto = OldRef
          /\ resp.body[i][13] = HostRoot(resp.msg.url_root) \o OldRef
          /\ resp.body[i][12] = <<>>
          /\ resp.body[j][12] = TagRef
          /\ resp.body[j][13] = HttpRef

\* the observation row of an id, before and after the step
RowBefore(obs_id) == {o \in observations : o.id = obs_id}

RowAfter(obs_id) == {o \in observations' : o.id = obs_id}

\* the number of blobs the store holds
BlobCount(local, s3) == Cardinality(DOMAIN local) + Cardinality(DOMAIN s3)

\* what an update of row old by payload data must leave in row new: each
\* recognized field of the payload holds the submitted value, a photo/report
\* field with a non-empty value holds what the Blob Store made of it, and every
\* other attribute is as before
UpdatedExactly(old, new, data, env) ==
    \A c \in DOMAIN old :
        IF c \notin Range(valid_fields) \cap DOMAIN data THEN new[c] = old[c]
        ELSE IF c \notin PhotoFields \/ ~Truthy(data[c]) \/ ~IsInline(data[c])
             THEN new[c] = data[c]
        ELSE IF Decodable(data[c]) /\ StoreConfig(env) # "none"
             THEN /\ Truthy(new[c]) /\ ~IsInline(new[c])
                  /\ Upload(FilenameOf(new[c])).status = 404
                  /\ UploadAfter(FilenameOf(new[c])).status = 200
        ELSE new[c] = <<>>

\* the blobs a payload makes the Blob Store write
Writes(data, env) ==
    {k \in PhotoFields : Decodable(Get(data, k)) /\ StoreConfig(env) # "none"}

\* a payload that gives null to a column that must hold a value
NullsRequired(data) == \E c \in ObservationNotNull \cap DOMAIN data : data[c] = None

\* C10 as stated: every PUT /api/observations/{id} on a stored row sets
\* exactly the recognized fields of the payload.
C10_UpdateSetsPresentFields ==
    [][(Answers("update_observation") /\ RowBefore(resp'.id) # {}) =>
          \E old \in RowBefore(resp'.id), new \in RowAfter(resp'.id) :
              UpdatedExactly(old, new, resp'.data, resp'.env)]_vars

\* C10, amended: a PUT /api/observations/{id} on a stored row that is answered
\* 200 sets exactly the recognized fields of the payload (photo/report fields
\* through the Blob Store when non-empty, as submitted when empty); one whose
\* payload gives null to a required column is answered 500 and changes no row;
\* in both cases every other row and table is unchanged and exactly the inline
\* payloads that the store accepts are written as blobs.
C10_UpdateSetsPresentFieldsOnCommit ==
    [][(Answers("update_observation") /\ RowBefore(resp'.id) # {}) =>
          /\ resp'.status = IF NullsRequired(resp'.data) THEN 500 ELSE 200
          /\ resp'.status = 200 =>
                \E old \in RowBefore(resp'.id), new \in RowAfter(resp'.id) :
                    UpdatedExactly(old, new, resp'.data, resp'.env)
          /\ resp'.status # 200 => observations' = observations
          /\ \A o \in observations : o.id # resp'.id => o \in observations'
          /\ Cardinality(observations') = Cardinality(observations)
          /\ projects' = projects /\ subcontractors' = subcontractors
          /\ BlobCount(local_files', s3_objects')
                = BlobCount(local_files, s3_objects)
                    + Cardinality(Writes(resp'.data, resp'.env))]_vars

C10_Witness ==
    /\ resp.op = "update_observation"
    /\ resp.status = 200
    /\ Get(resp.data, "observationPhoto") = <<>>
    /\ Get(resp.data, "compliancePhoto") = None
    /\ BlobState.n = 1
    /\ \E o \in observations :
          /\ o.id = resp.id
          /\ o.observationPhoto = <<>>
          /\ o.compliancePhoto = None
          /\ o.observation = S("no harness")

\* C11: POST /api/subcontractors answers 400 when project_code or name is
\* missing or empty, 404 when no Project has that projectCode, and adds no row in
\* either case; otherwise it answers 201 and adds exactly one row, with that
\* name and project_code.
C11_AddSubContractor ==
    [][AnswersAtOnce("add_subcontractor") =>
          LET project_code == Get(resp'.data, "project_code")
              name         == Get(resp'.data, "name")
          IN  /\ UNCHANGED <<projects, observations>>
              /\ IF project_code \in {None, <<>>} \/ name \in {None, <<>>}
                 THEN resp'.status = 400 /\ subcontractors' = subcontractors
                 ELSE IF \A p \in projects : p.projectCode # project_code
                 THEN resp'.status = 404 /\ subcontractors' = subcontractors
                 ELSE /\ resp'.status = 201
                      /\ subcontractors \subseteq subcontractors'
                      /\ Cardinality(subcontractors') = Cardinality(subcontractors) + 1
                      /\ \A c \in subcontractors' \ subcontractors :
                            c.name = name /\ c.project_code = project_code]_vars

C11_Witness ==
    /\ resp.op = "add_subcontractor"
    /\ resp.status = 201
    /\ Cardinality({c \in subcontractors : c.name = S("RRPL")}) = 2
    /\ Cardinality(subcontractors) = Len(contractors_data) + 1

\* C12 as stated: with object storage configured, whenever the upload of an
\* inline payload fails (whatever put_object raises) and the local directory is
\* writable, the stored reference is "/uploads/<filename>" and the local
\* directory holds the decoded bytes under that filename.
C12_UploadFailureFallsBack ==
    [][CommitsObservation =>
          \A k \in PhotoFields \cap DOMAIN resp'.data :
              (/\ s3_client = "on"
               /\ Decodable(resp'.data[k])
               /\ resp'.env.put # "ok"
               /\ resp'.env.disk = "ok") =>
                  /\ startswith(resp'.body[k], <<"/", "uploads", "/">>)
                  /\ FilenameOf(resp'.body[k]) \in DOMAIN local_files'
                  /\ local_files'[FilenameOf(resp'.body[k])]
                        = b64decode(SplitRest(resp'.data[k], ","))]_vars

\* C13: GET /uploads/{filename} answers with the object of object storage when
\* object storage is configured and holds the filename's key; otherwise with the
\* file of the local upload directory; and with 404 when neither holds it. It
\* changes no table and no blob.
C13_ServeUploadOrder ==
    [][Answers("serve_upload") =>
          LET filename == resp'.msg.filename
              key      == <<S3_FOLDER_PREFIX, "/">> \o filename
          IN  /\ IF s3_client = "on" /\ key \in DOMAIN s3_objects
                 THEN resp'.status = 200 /\ resp'.body = s3_objects[key].Body
                 ELSE IF filename \in DOMAIN local_files
                 THEN resp'.status = 200 /\ resp'.body = local_files[filename]
                 ELSE resp'.status = 404
              /\ TablesUnchanged
              /\ BlobUnchanged]_vars

C13_Witness ==
    /\ resp.op = "serve_upload"
    /\ resp.status = 200
    /\ s3_client = "on"
    /\ <<S3_FOLDER_PREFIX, "/">> \o resp.msg.filename \in DOMAIN s3_objects
    /\ resp.body = <<37, 80, 68, 70>>

\* the endpoints that change the relational store
MutatingOps ==
    {"add_observation", "update_observation", "delete_observation",
     "add_project", "update_project", "delete_project",
     "add_subcontractor", "update_subcontractor", "delete_subcontractor"}

\* C14 as stated: when a request to a mutating endpoint raises an exception,
\* the response is the handler's own 500 carrying the error text and the
\* relational store is as it was before the request.
C14_ExceptionCaughtAndRolledBack ==
    [][(resp'.n # resp.n /\ resp'.op \in MutatingOps /\ resp'.status = 500) =>
          /\ "error" \in DOMAIN resp'.msg
          /\ TablesUnchanged]_vars

\* C15: in every reachable state, whatever project creates, updates and
\* deletes ran and however they interleaved, no two Project rows have the same
\* projectCode.
C15_ProjectCodeUnique ==
    \A p \in projects, q \in projects : p.projectCode = q.projectCode => p = q

C15_Witness ==
    /\ resp.op = "add_project"
    /\ resp.status = 500
    /\ Get(resp.data, "projectCode") = S("P-NEW")
    /\ Cardinality({p \in projects : p.projectCode = S("P-NEW")}) = 1
    /\ \E p \in projects : p.id = 1 /\ p.projectCode = S("P-NEW")

\* C16 as stated: whenever a DELETE /api/projects/{id} removes the Project
\* row, no Observation with that projectCode exists at the moment the removal
\* commits.
C16_DeletedOnlyWhenUnreferenced ==
    [][(Answers("delete_project") /\ resp'.status = 200) =>
          \A p \in projects \ projects' :
              \A o \in observations : o.projectCode # p.projectCode]_vars

\* C17: no request of the API (login, data, create, update and delete of
\* projects, subcontractors and observations, export, upload serving) adds,
\* changes or removes a User row.
C17_UsersUnchanged ==
    [][users' = users]_vars

C17_Witness ==
    /\ resp.op = "login"
    /\ resp.status = 200
    /\ resp.body = [username |-> S("admin@simonindia.ai"), role |-> S("admin")]
    /\ projects # projects_data
    /\ users = users_data

\* the part of a payload made of the given keys
Strip(data, keys) == [k \in DOMAIN data \cap keys |-> data[k]]

\* C18: payload keys that are not recognized are ignored. An observation create
\* answers and stores what its recognized keys alone determine (400 for a
\* missing required field, else 201 and a row of the fixed columns holding the
\* submitted value or the column default); an observation update and a project
\* update leave every column that no recognized key names as it was, keep the
\* row's columns, and fail only for a reason their recognized keys give; a
\* project update of unrecognized keys alone answers 200 and changes nothing.
C18_UnrecognizedKeysIgnored ==
    [][/\ AnswersAtOnce("add_observation") =>
            LET d == Strip(resp'.data, Range(valid_fields))
            IN  /\ resp'.status = IF MissingFields(d) # {} THEN 400 ELSE 201
                /\ resp'.status = 201 =>
                      /\ DOMAIN resp'.body = Range(valid_fields) \cup {"id"}
                      /\ observations' = observations \cup {resp'.body}
                      /\ \A c \in Range(valid_fields) \ PhotoFields :
                            resp'.body[c] = IF Get(d, c) # None THEN d[c]
                                            ELSE IF c = "status" THEN S("Open")
                                            ELSE IF c = "contractor" THEN S("SIL")
                                            ELSE None
       /\ (AnswersAtOnce("update_observation") /\ RowBefore(resp'.id) # {}) =>
            LET d == Strip(resp'.data, Range(valid_fields))
            IN  /\ resp'.status = IF NullsRequired(d) THEN 500 ELSE 200
                /\ \A old \in RowBefore(resp'.id) : \E new \in RowAfter(resp'.id) :
                      /\ DOMAIN new = DOMAIN old
                      /\ \A c \in DOMAIN old \ DOMAIN d : new[c] = old[c]
       /\ (AnswersAtOnce("update_project") /\ GetProject(resp'.id) # {}) =>
            LET d == Strip(resp'.data, ProjectColumns)
            IN  /\ DOMAIN d = {} => resp'.status = 200 /\ projects' = projects
                /\ resp'.status # 200 =>
                      \/ \E c \in ProjectNotNull \cap DOMAIN d : d[c] = None
                      \/ /\ "projectCode" \in DOMAIN d
                         /\ \E p \in projects : p.id # resp'.id /\ p.projectCode = d.projectCode
                      \/ /\ "id" \in DOMAIN d
                         /\ \E p \in projects : p.id # resp'.id /\ p.id = d.id
                /\ \A old \in GetProject(resp'.id) :
                      \E new \in {p \in projects' :
                                    p.id = IF resp'.status = 200 /\ "id" \in DOMAIN d
                                           THEN d.id ELSE old.id} :
                          /\ DOMAIN new = ProjectColumns
                          /\ \A c \in ProjectColumns \ DOMAIN d : new[c] = old[c]]_vars

C18_Witness ==
    /\ resp.op = "update_project"
    /\ resp.status = 200
    /\ resp.data = [budget |-> S("1")]
    /\ \E p \in projects : p.id = resp.id /\ p.projectName = S("Renamed")
    /\ \E o \in observations :
          /\ o.observation = S("spill")
          /\ o.subContractor = S("RRPL")
          /\ "remarks" \notin DOMAIN o

\* the filenames some Observation row refers to, after the step
ReferencedAfter == {FilenameOf(o[k]) : o \in observations', k \in PhotoFields}

\* C19: an observation create or update that gets past validation and lookup
\* writes the blobs of its inline payloads whether or not its commit succeeds;
\* when the commit fails the answer is 500, the Observation table is unchanged,
\* no row refers to the blobs just written and they stay in storage; and no
\* request ever removes a blob or changes its bytes.
C19_BlobWriteNotUndone ==
    [][/\ (\/ Answers("add_observation") /\ resp'.status # 400
           \/ Answers("update_observation") /\ RowBefore(resp'.id) # {}) =>
            /\ BlobCount(local_files', s3_objects')
                  = BlobCount(local_files, s3_objects)
                      + Cardinality(Writes(resp'.data, resp'.env))
            /\ resp'.status \in {200, 201, 500}
            /\ resp'.status = 500 =>
                  /\ observations' = observations
                  /\ \A filename \in StoredFilenames' \ StoredFilenames :
                        filename \notin ReferencedAfter
       /\ \A filename \in DOMAIN local_files :
            filename \in DOMAIN local_files' /\ local_files'[filename] = local_files[filename]
       /\ \A key \in DOMAIN s3_objects :
            key \in DOMAIN s3_objects' /\ s3_objects'[key] = s3_objects[key]]_vars

C19_Witness ==
    /\ resp.op = "update_observation"
    /\ resp.status = 500
    /\ observations # {}
    /\ \E filename \in StoredFilenames :
          /\ Upload(filename).body = <<37, 80, 68, 70>>
          /\ \A o \in observations, k \in PhotoFields : FilenameOf(o[k]) # filename

\* the extension the naming rule gives a payload header: the MIME subtype, with
\* "jpeg" written "jpg", and "bin" when the header has no ";" section or its
\* MIME type has no subtype
NamedExt(header) ==
    IF ~Contains(header, ";") THEN <<"bin">>
    ELSE LET mime == SplitRest(SplitHead(header, ";"), ":")
         IN  IF ~Contains(mime, "/") THEN <<"bin">>
             ELSE IF SplitLast(mime, "/") = <<"jpeg">> THEN <<"jpg">>
             ELSE SplitLast(mime, "/")

\* C20 as stated: the blob of every stored inline payload is named
\* "{prefix}_{random-hex}.{ext}" with the extension of the naming rule.
C20_BlobNaming ==
    [][(/\ Answers("save_base64_image")
        /\ Decodable(resp'.data)
        /\ StoreConfig(resp'.env) # "none") =>
            LET filename == FilenameOf(resp'.body)
            IN  /\ StoredFilenames' \ StoredFilenames = {filename}
                /\ Len(filename) >= 5
                /\ filename[1] = resp'.msg.prefix
                /\ filename[2] = "_"
                /\ filename[4] = "."
                /\ SubSeq(filename, 5, Len(filename))
                      = NamedExt(SplitHead(resp'.data, ","))]_vars

\* the rows of a table other than the one of the given id
Others(table, id) == {row \in table : row.id # id}

\* C21: a delete answered 200 leaves in its table exactly the rows of the other
\* ids, unchanged, and changes no other table, no User row and no blob; a
\* project's subcontractors stay, and the delete of a stored observation always
\* succeeds, whatever refers to what.
C21_DeleteDoesNotCascade ==
    [][/\ (Answers("delete_project") /\ resp'.status = 200) =>
            /\ projects' = Others(projects, resp'.id)
            /\ UNCHANGED <<subcontractors, observations, users>>
            /\ BlobUnchanged
       /\ (Answers("delete_subcontractor") /\ resp'.status = 200) =>
            /\ subcontractors' = Others(subcontractors, resp'.id)
            /\ UNCHANGED <<projects, observations, users>>
            /\ BlobUnchanged
       /\ Answers("delete_observation") =>
            /\ RowBefore(resp'.id) # {} => resp'.status = 200
            /\ observations' = Others(observations, resp'.id)
            /\ UNCHANGED <<projects, subcontractors, users>>
            /\ BlobUnchanged]_vars

C21_Witness ==
    /\ resp.op = "delete_project"
    /\ resp.status = 200
    /\ resp.id = 1
    /\ GetProject(1) = {}
    /\ Cardinality(projects) = Cardinality(projects_data) - 1
    /\ Cardinality({c \in subcontractors : c.project_code = S("I-30059")})
          = Len(contractors_data)

\* an inline payload the Blob Store cannot persist in this request: it does not
\* parse or decode, or no storage takes it
NotPersisted(v, env) == IsInline(v) /\ ~(Decodable(v) /\ StoreConfig(env) # "none")

\* C22: an observation create that passed validation, and an observation update
\* of a stored row whose payload nulls no required column, commit and answer
\* 201/200 even when the Blob Store cannot persist an inline payload; the field
\* of each such payload is stored as the empty string.
C22_StorageFailureDoesNotFailRequest ==
    [][(\/ Answers("add_observation") /\ resp'.status # 400
        \/ /\ Answers("update_observation")
           /\ RowBefore(resp'.id) # {}
           /\ ~NullsRequired(resp'.data)) =>
          /\ resp'.status = IF resp'.op = "add_observation" THEN 201 ELSE 200
          /\ resp'.body \in observations'
          /\ \A k \in PhotoFields \cap DOMAIN resp'.data :
                NotPersisted(resp'.data[k], resp'.env) => resp'.body[k] = <<>>]_vars

C22_Witness ==
    /\ resp.op = "add_observation"
    /\ resp.status = 201
    /\ s3_client = "on"
    /\ Get(resp.data, "observationPhoto") = PNG
    /\ resp.env = [put |-> "ClientError", disk |-> "OSError"]
    /\ \E o \in observations : o.id = resp.id /\ o.observationPhoto = <<>>
    /\ StoredFilenames = {}

\* C23: from any current status, a PUT /api/observations/{id} on a stored row
\* whose payload carries a status (and nulls no required column) is answered 200
\* and the stored status is the supplied value, whatever the two values are.
C23_StatusNotGuarded ==
    [][(/\ Answers("update_observation")
        /\ RowBefore(resp'.id) # {}
        /\ "status" \in DOMAIN resp'.data
        /\ ~NullsRequired(resp'.data)) =>
          /\ resp'.status = 200
          /\ RowAfter(resp'.id) # {}
          /\ \A new \in RowAfter(resp'.id) : new.status = resp'.data.status]_vars

\* a row created "Closed" has been moved back to "Open"
C23_Witness ==
    /\ resp.op = "update_observation"
    /\ resp.status = 200
    /\ resp.data = [status |-> S("Open")]
    /\ \E o \in observations :
          /\ o.id = resp.id
          /\ o.observation = S("spill")
          /\ o.contractor = S("ACME")
          /\ o.status = S("Open")

\* the payload carries an inline photo/report payload
CarriesInline(data) == \E k \in PhotoFields \cap DOMAIN data : IsInline(data[k])

\* C24: a POST /api/observations answered 400 for a missing required field, and
\* a PUT /api/observations/{id} whose id names no row, store no blob and draw no
\* filename, also when the payload carries an inline photo/report payload; the
\* create is answered 400 whenever a required field is missing, before any
\* payload is saved.
C24_RejectedBeforeBlobWrite ==
    [][/\ (Answers("add_observation") /\ MissingFields(resp'.data) # {}) =>
            /\ resp'.status = 400
            /\ BlobUnchanged
       /\ (Answers("update_observation") /\ RowBefore(resp'.id) = {}) =>
            /\ resp'.status # 200
            /\ BlobUnchanged]_vars

C24_Witness ==
    /\ resp.op = "add_observation"
    /\ resp.status = 400
    /\ CarriesInline(resp.data)
    /\ Decodable(resp.data.observationPhoto)
    /\ resp.env = [put |-> "ok", disk |-> "ok"]
    /\ BlobCount(local_files, s3_objects) = 0
    /\ nuuid = 0

\* the ids of the rows of a table
IdsOf(table) == {row.id : row \in table}

\* C25 as stated: no PUT on an observation, a project or a subcontractor changes
\* the id of any row, and the set of ids of each table changes only in the
\* answer to a create or a delete of that table.
C25_IdsImmutable ==
    [][/\ (\E op \in {"update_observation", "update_project", "update_subcontractor"} :
              Answers(op)) =>
            /\ IdsOf(observations') = IdsOf(observations)
            /\ IdsOf(projects') = IdsOf(projects)
            /\ IdsOf(subcontractors') = IdsOf(subcontractors)
       /\ IdsOf(observations') # IdsOf(observations) =>
            resp'.op \in {"add_observation", "delete_observation"}
       /\ IdsOf(projects') # IdsOf(projects) =>
            resp'.op \in {"add_project", "delete_project"}
       /\ IdsOf(subcontractors') # IdsOf(subcontractors) =>
            resp'.op \in {"add_subcontractor", "delete_subcontractor"}]_vars

====
